---------------------------- MODULE Spec2Model ----------------------------
(* Model of the sb-divine-residents maintenance tracker:                   *)
(*   - the due calculator getResidentCalculations (a pure function),       *)
(*   - the admin edit path ResidentCard -> Dashboard.updateResident,       *)
(*   - the App component's session / remote-document lifecycle.            *)
EXTENDS Integers, Sequences, FiniteSets, TLC

VARIABLES
    resident,           \* the Resident handed to getResidentCalculations
    settings,           \* MaintenanceSettings {flatMonthlyFee, shopMonthlyFee}
    currentMonthIndex,  \* new Date().getMonth(), fixed within a behaviour
    calc,               \* the values returned by getResidentCalculations so far
    residents,          \* App state: Resident[] shown by the Dashboard
    currentUser,        \* App state: CurrentUser
    shown,              \* the totals each ResidentCard has rendered
    lastEdit,           \* the last input event handled by a ResidentCard
    edits,              \* number of input events handled so far
    variant,            \* which App component of the repository runs
    expenses,           \* App state: Expense[]
    localResidents,     \* usePersistentState("residents_v2", ...)
    localExpenses,      \* usePersistentState("expenses_v2", ...)
    localSettings,      \* usePersistentState("settings_v2", ...)
    localStorage,       \* window.localStorage: the items of the three keys
    mounted,            \* the App component has rendered
    uid,                \* App state: string | null
    loadingRemote,      \* App state: boolean
    authUser,           \* the identity provider's signed-in user
    listener,           \* the onSnapshot subscription of the load effect
    docs,               \* the remote store: users/{uid} documents
    lastCreate,         \* the last setDoc call that created a document
    createCalls,        \* setDoc calls made by the current subscription
    firstResidents,     \* the residents of the App's first render
    timers,             \* saveTimerRef: the pending debounce timers
    inflight,           \* remote writes of the save effect awaiting a result
    lastWrite,          \* the last updateDoc / merge setDoc call
    notice,             \* what the last handler showed the user
    console             \* what the last handler logged

calcVars == <<resident, calc>>

dashboardVars == <<residents, currentUser, shown, lastEdit, edits>>

localVars ==
    <<localResidents, localExpenses, localSettings, localStorage>>

saveVars == <<timers, inflight, lastWrite>>

bindVars == <<listener, loadingRemote, lastCreate, createCalls, lastWrite>>

outVars == <<notice, console>>

appVars == <<variant, mounted, expenses, localVars, uid, loadingRemote, authUser,
             listener, docs, lastCreate, createCalls, firstResidents,
             saveVars, outVars>>

vars == <<resident, settings, currentMonthIndex, calc,
          residents, currentUser, shown, lastEdit, edits,
          variant, mounted, expenses, localResidents, localExpenses,
          localSettings, localStorage,
          uid, loadingRemote, authUser, listener, docs, lastCreate,
          createCalls, firstResidents, timers, inflight, lastWrite, notice,
          console>>

-----------------------------------------------------------------------------
(* Bounds of the model *)

\* periods (calendar months) are 0..MaxPeriod; the program has 0..11
MaxPeriod == 2

\* input events handled by the cards in one behaviour
MaxEdits == 2

\* the current month of the Dashboard behaviours
EditMonth == 1

\* remote writes of the save effect that may await their result at once
MaxInflight == 1

-----------------------------------------------------------------------------
(* JavaScript values: numbers, NaN and undefined *)

Num(n) == [kind |-> "num", v |-> n]

NaN == [kind |-> "nan", v |-> 0]

Undefined == [kind |-> "undefined", v |-> 0]

IsNum(x) == x.kind = "num"

\* JS truthiness of a number-typed value: NaN, 0 and undefined are falsy
Truthy(x) == x.kind = "num" /\ x.v # 0

\* variant: the value is used without  || 0
OrZero_missing(x) == x

\* the JS expression  x || 0
OrZero(x) == IF Truthy(x) THEN x ELSE Num(0)

\* the JS expression  a + b  on number-typed values
JsAdd(a, b) == IF IsNum(a) /\ IsNum(b) THEN Num(a.v + b.v) ELSE NaN

\* the JS expression  a - b
JsSub(a, b) == IF IsNum(a) /\ IsNum(b) THEN Num(a.v - b.v) ELSE NaN

\* the JS expression  a < b  (false when either side is NaN)
JsLess(a, b) == IsNum(a) /\ IsNum(b) /\ a.v < b.v

\* the JS expression  obj[i]  on a sparse mapping
Lookup(obj, i) == IF i \in DOMAIN obj THEN obj[i] ELSE Undefined

-----------------------------------------------------------------------------
(* Strings are sequences of characters *)

Str_flat == <<"f", "l", "a", "t">>

Str_shop == <<"s", "h", "o", "p">>

\* String.prototype.startsWith
StartsWith(s, prefix) ==
    /\ Len(s) >= Len(prefix)
    /\ SubSeq(s, 1, Len(prefix)) = prefix

-----------------------------------------------------------------------------
(* The due calculator *)

\* DEFAULT fee schedule of the program
DefaultFlatFee == 1000

DefaultShopFee == 200

DefaultSettings ==
    [flatMonthlyFee |-> Num(DefaultFlatFee),
     shopMonthlyFee |-> Num(DefaultShopFee)]

\* String.prototype.includes
Includes(s, part) ==
    \E k \in 0..(Len(s) - Len(part)) : SubSeq(s, k + 1, k + Len(part)) = part

\* variant: the category is decided by includes("flat")
isFlat_includes(r) == Includes(r.id, Str_flat)

\* const isFlat = resident.id.startsWith("flat")
isFlat(r) == StartsWith(r.id, Str_flat)

\* const decidedMaintenance = isFlat ? flatMonthlyFee : shopMonthlyFee
decidedMaintenance(r, s) ==
    IF isFlat(r) THEN s.flatMonthlyFee ELSE s.shopMonthlyFee

Min(S) == CHOOSE x \in S : \A y \in S : x <= y

\* Object.values(payments).reduce((sum, amount) => sum + (amount || 0), 0)
\* Object.values visits integer keys in ascending order.
RECURSIVE ReducePaid(_, _, _)
ReducePaid(payments, keys, sum) ==
    IF keys = {} THEN sum
    ELSE LET k == Min(keys)
         IN  ReducePaid(payments, keys \ {k},
                        JsAdd(sum, OrZero(payments[k])))

\* variant: negative entries are rejected (left out of the sum)
totalPaid_rejectNegative(r) ==
    ReducePaid(r.payments,
               {k \in DOMAIN r.payments : ~JsLess(r.payments[k], Num(0))},
               Num(0))

totalPaid(r) == ReducePaid(r.payments, DOMAIN r.payments, Num(0))

\* for (let i = 0; i <= currentMonthIndex; i++) {
\*   const paid = payments[i] || 0;
\*   if (paid < decidedMaintenance) currentYearDue += decidedMaintenance - paid; }
RECURSIVE DueLoop(_, _, _, _, _)
DueLoop(payments, fee, i, month, currentYearDue) ==
    IF i > month THEN currentYearDue
    ELSE LET paid == OrZero(Lookup(payments, i))
         IN  DueLoop(payments, fee, i + 1, month,
                     IF JsLess(paid, fee)
                     THEN JsAdd(currentYearDue, JsSub(fee, paid))
                     ELSE currentYearDue)

\* variant: the loop without the clamp  if (paid < decidedMaintenance)
RECURSIVE DueLoopUnclamped(_, _, _, _, _)
DueLoopUnclamped(payments, fee, i, month, currentYearDue) ==
    IF i > month THEN currentYearDue
    ELSE LET paid == OrZero(Lookup(payments, i))
         IN  DueLoopUnclamped(payments, fee, i + 1, month,
                              JsAdd(currentYearDue, JsSub(fee, paid)))

currentYearDue_unclamped(r, s, month) ==
    DueLoopUnclamped(r.payments, decidedMaintenance(r, s), 0, month, Num(0))

\* variant: the loop stops before the current month (i < currentMonthIndex)
currentYearDue_exclusive(r, s, month) ==
    DueLoop(r.payments, decidedMaintenance(r, s), 0, month - 1, Num(0))

\* variant: the loop runs over every period of the year
currentYearDue_allPeriods(r, s, month) ==
    DueLoop(r.payments, decidedMaintenance(r, s), 0, MaxPeriod, Num(0))

currentYearDue(r, s, month) ==
    DueLoop(r.payments, decidedMaintenance(r, s), 0, month, Num(0))

\* variant: previousDue is left out of the total
totalDue_withoutPrevious(r, s, month) == currentYearDue(r, s, month)

\* const totalDue = resident.previousDue + currentYearDue
totalDue(r, s, month) == JsAdd(r.previousDue, currentYearDue(r, s, month))

getResidentCalculations(r, s, month) ==
    [decidedMaintenance |-> decidedMaintenance(r, s),
     totalPaid          |-> totalPaid(r),
     totalDue           |-> totalDue(r, s, month)]

-----------------------------------------------------------------------------
(* Inputs of the calculator, drawn from small sets *)

Periods == 0..MaxPeriod

Id_flat101 == Str_flat \o <<"-", "1", "0", "1">>

Id_shopS1 == Str_shop \o <<"-", "S", "1">>

\* an id that contains "flat" without starting with it
Id_xflat == <<"x">> \o Str_flat

CalcIds == {Id_flat101, Id_shopS1, Id_xflat}

\* amounts a payment entry may hold, in terms of the default fees:
\* negative, zero, half a fee, a fee, more than a fee, and NaN
HalfFlatFee == DefaultFlatFee \div 2

PaymentEntries ==
    {NaN, Num(0 - DefaultShopFee), Num(0), Num(HalfFlatFee),
     Num(DefaultFlatFee), Num(DefaultFlatFee + HalfFlatFee)}

\* sparse mappings period -> entry
PaymentMaps ==
    UNION {[D -> PaymentEntries] : D \in SUBSET Periods}

PreviousDues == {Num(0), Num(DefaultShopFee)}

FeeSchedules ==
    {DefaultSettings,
     [flatMonthlyFee |-> Num(HalfFlatFee),
      shopMonthlyFee |-> Num(DefaultFlatFee)]}

CalcResidents ==
    [id : CalcIds, previousDue : PreviousDues, payments : PaymentMaps]

-----------------------------------------------------------------------------
(* Specification of the calculator: inputs are drawn by Init, Compute      *)
(* applies getResidentCalculations to them.                                *)

\* JS null
Null == [role |-> "null"]

NoEdit == [field |-> "none"]

\* uid === null
NullUid == "null"

\* no user is signed in at the identity provider
NoUser == [uid |-> NullUid, email |-> <<>>, password |-> <<>>]

\* no onSnapshot subscription exists
NoListener == [uid |-> NullUid, status |-> "none", pending |-> FALSE]

NoCreate == [uid |-> NullUid]

\* no updateDoc / merge setDoc call was made
NoWrite == [uid |-> NullUid, op |-> "none"]

\* nothing shown, nothing logged
Quiet == "none"

\* JS null as JSON.parse returns it for a number JSON cannot write
JsNull == [kind |-> "null", v |-> 0]

\* JSON.stringify of a number: NaN is written as null
JsonNumber(x) == IF IsNum(x) THEN x ELSE JsNull

\* JSON.parse(JSON.stringify(residents))
JsonResidents(rs) ==
    [k \in DOMAIN rs |->
        [rs[k] EXCEPT
            !.previousDue = JsonNumber(@),
            !.payments = [i \in DOMAIN @ |-> JsonNumber(@[i])]]]

\* JSON.parse(JSON.stringify(expenses))
JsonExpenses(es) ==
    [k \in DOMAIN es |-> [es[k] EXCEPT !.amount = JsonNumber(@)]]

\* JSON.parse(JSON.stringify(settings))
JsonSettings(st) ==
    [flatMonthlyFee |-> JsonNumber(st.flatMonthlyFee),
     shopMonthlyFee |-> JsonNumber(st.shopMonthlyFee)]

\* localStorage.getItem(key) === null
NoItem == [kind |-> "none"]

\* an item that is the JSON text of a value; value: what JSON.parse
\* returns for it
JsonItem(value) == [kind |-> "json", value |-> value]

\* an item that is not JSON text: the empty string, or text JSON.parse
\* throws on
TextItem(text) == [kind |-> "text", text |-> text]

\* no key is set
EmptyStorage ==
    [residents_v2 |-> NoItem, expenses_v2 |-> NoItem, settings_v2 |-> NoItem]

\* the effect of each usePersistentState:
\* localStorage.setItem(key, JSON.stringify(state))
Persisted(rs, es, st) ==
    [residents_v2 |-> JsonItem(JsonResidents(rs)),
     expenses_v2 |-> JsonItem(JsonExpenses(es)),
     settings_v2 |-> JsonItem(JsonSettings(st))]

\* variant: the stored item is ignored
usePersistentState_seedAlways(item, initialValue) == initialValue

\* the initial state of usePersistentState(key, initialValue):
\* try { const stored = getItem(key);
\*       return stored ? JSON.parse(stored) : initialValue }
\* catch { return initialValue }
usePersistentState(item, initialValue) ==
    IF item.kind = "none" THEN initialValue
    ELSE IF item.kind = "text" THEN initialValue
    ELSE item.value

\* the App before any session: nobody signed in, nothing subscribed
AppIdle ==
    /\ variant = "none"
    /\ mounted = TRUE
    /\ localStorage = EmptyStorage
    /\ expenses = <<>>
    /\ localResidents = <<>>
    /\ localExpenses = <<>>
    /\ localSettings = DefaultSettings
    /\ uid = NullUid
    /\ loadingRemote = FALSE
    /\ authUser = NoUser
    /\ listener = NoListener
    /\ docs = <<>>
    /\ lastCreate = NoCreate
    /\ createCalls = 0
    /\ firstResidents = <<>>
    /\ timers = <<>>
    /\ inflight = <<>>
    /\ lastWrite = NoWrite
    /\ notice = Quiet
    /\ console = Quiet

InitCalc ==
    /\ AppIdle
    /\ resident \in CalcResidents
    /\ settings \in FeeSchedules
    /\ currentMonthIndex \in Periods
    /\ calc = <<>>
    /\ residents = <<>>
    /\ currentUser = Null
    /\ shown = <<>>
    /\ lastEdit = NoEdit
    /\ edits = 0

\* the last two values returned
Remember(history, value) ==
    IF Len(history) < 2 THEN Append(history, value)
    ELSE <<history[2], value>>

\* variant: the due is kept as a running balance, written back to the unit
Compute_runningBalance ==
    LET result ==
            getResidentCalculations(resident, settings, currentMonthIndex)
    IN  /\ calc' = Remember(calc, result)
        /\ resident' = [resident EXCEPT !.previousDue = result.totalDue]
        /\ UNCHANGED <<settings, currentMonthIndex, dashboardVars, appVars>>

\* a render of ResidentCard: const {totalPaid, totalDue} =
\*   getResidentCalculations(resident, settings)
\* The function assigns to neither argument.
Compute ==
    /\ calc' = Remember(calc, getResidentCalculations(resident, settings,
                                                      currentMonthIndex))
    /\ UNCHANGED <<resident, settings, currentMonthIndex, dashboardVars,
                   appVars>>

NextCalc == Compute

SpecCalc == InitCalc /\ [][NextCalc]_vars

-----------------------------------------------------------------------------
(* Properties of the calculator, stated without the calculator's operators *)

Computed == calc # <<>>

Max0(n) == IF n > 0 THEN n ELSE 0

\* the amount paid in period i: 0 for a missing or non-numeric entry
PaidIn(r, i) ==
    IF i \in DOMAIN r.payments /\ r.payments[i].kind = "num"
    THEN r.payments[i].v ELSE 0

RECURSIVE SumOver(_, _)
SumOver(f, S) ==
    IF S = {} THEN 0
    ELSE LET x == CHOOSE y \in S : TRUE
         IN  f[x] + SumOver(f, S \ {x})

\* the first four characters of the id are f, l, a, t
HasFlatPrefix(r) ==
    /\ Len(r.id) >= 4
    /\ r.id[1] = "f" /\ r.id[2] = "l" /\ r.id[3] = "a" /\ r.id[4] = "t"

PeriodicFee(r, s) ==
    IF HasFlatPrefix(r) THEN s.flatMonthlyFee.v ELSE s.shopMonthlyFee.v

ShortfallIn(r, s, i) == Max0(PeriodicFee(r, s) - PaidIn(r, i))

ShortfallTo(r, s, m) ==
    SumOver([i \in 0..m |-> ShortfallIn(r, s, i)], 0..m)

\* the spec's scenario: residential unit, fee 1000, March,
\* payments {0:1000, 1:500}, previousDue 200
ScenarioMarch ==
    /\ resident = [id |-> Id_flat101, previousDue |-> Num(200),
                   payments |-> (0 :> Num(1000)) @@ (1 :> Num(500))]
    /\ settings = DefaultSettings
    /\ currentMonthIndex = 2

\* C1: totalDue = previousDue + the sum over periods 0..currentMonthIndex
\* (inclusive) of max(0, periodicFee - paid_i), paid_i = 0 for a missing
\* period; in the March scenario totalDue is 1700.
C1_TotalDueFormula ==
    Computed =>
        /\ calc[1].totalDue =
               Num(resident.previousDue.v
                   + ShortfallTo(resident, settings, currentMonthIndex))
        /\ ScenarioMarch => calc[1].totalDue = Num(1700)

C1_Witness == Computed /\ ScenarioMarch

\* the spec's scenario: commercial unit, fee 200, no payments,
\* previousDue 0, January
ScenarioShop ==
    /\ resident = [id |-> Id_shopS1, previousDue |-> Num(0),
                   payments |-> <<>>]
    /\ settings = DefaultSettings
    /\ currentMonthIndex = 0

\* C2: the periodic fee is flatMonthlyFee when the id starts with "flat" and
\* shopMonthlyFee for every other id (two tiers only); the commercial
\* scenario has totalDue 200.
C2_FeeByPrefix ==
    Computed =>
        /\ calc[1].decidedMaintenance =
               (IF HasFlatPrefix(resident) THEN settings.flatMonthlyFee
                ELSE settings.shopMonthlyFee)
        /\ ScenarioShop => calc[1].totalDue = Num(200)

C2_Witness ==
    /\ Computed
    /\ resident.id = Id_xflat
    /\ settings.flatMonthlyFee # settings.shopMonthlyFee

\* C3: totalPaid is the sum of all entries of the payment mapping, whatever
\* their period (periods after the current month included) and sign
\* (negative entries are summed); an empty mapping gives 0.
C3_TotalPaidSumsAll ==
    Computed =>
        /\ calc[1].totalPaid =
               Num(SumOver([i \in DOMAIN resident.payments |->
                               PaidIn(resident, i)],
                           DOMAIN resident.payments))
        /\ resident.payments = <<>> => calc[1].totalPaid = Num(0)

C3_Witness ==
    /\ Computed
    /\ currentMonthIndex = 0
    /\ 1 \in DOMAIN resident.payments
    /\ resident.payments[1] = Num(0 - DefaultShopFee)
    /\ 2 \in DOMAIN resident.payments
    /\ resident.payments[2] = Num(DefaultFlatFee)

\* the payment mapping without its entries after period m
UpTo(payments, m) ==
    [i \in {j \in DOMAIN payments : j <= m} |-> payments[i]]

\* C4: entries for periods after the current month never contribute to
\* totalDue: the unit has the totalDue of the unit without those entries, so
\* two units that differ only in them have the same totalDue.
C4_FutureIgnored ==
    Computed =>
        calc[1].totalDue =
            totalDue([resident EXCEPT !.payments = UpTo(@, currentMonthIndex)],
                     settings, currentMonthIndex)

C4_Witness ==
    /\ Computed
    /\ currentMonthIndex = 0
    /\ 1 \in DOMAIN resident.payments
    /\ resident.payments[1] = Num(HalfFlatFee)
    /\ calc[1].totalDue # resident.previousDue

\* periods up to the current month that are paid more than the fee
Overpaid(r, s, m) ==
    {i \in 0..m : PaidIn(r, i) > PeriodicFee(r, s)}

\* the unit with every overpaid period paid exactly the fee
ExactlyPaid(r, s, m) ==
    [r EXCEPT !.payments =
        [i \in DOMAIN @ |->
            IF i \in Overpaid(r, s, m) THEN Num(PeriodicFee(r, s)) ELSE @[i]]]

\* C5: totalDue >= previousDue, and a period paid above the fee counts as
\* paid exactly the fee: overpayment gives no negative shortfall and no
\* credit to other periods.
C5_NoCreditForward ==
    Computed =>
        /\ calc[1].totalDue.kind = "num"
        /\ calc[1].totalDue.v >= resident.previousDue.v
        /\ calc[1].totalDue =
               totalDue(ExactlyPaid(resident, settings, currentMonthIndex),
                        settings, currentMonthIndex)

C5_Witness ==
    /\ Computed
    /\ currentMonthIndex = 1
    /\ Overpaid(resident, settings, currentMonthIndex) = {0}
    /\ PaidIn(resident, 1) < PeriodicFee(resident, settings)

PaidInFull(r, s, m) ==
    \A i \in 0..m : i \in DOMAIN r.payments
                     /\ r.payments[i] = Num(PeriodicFee(r, s))

\* C6: paying exactly the fee in every period 0..currentMonthIndex gives
\* totalDue = previousDue; previousDue 0 and no payments give
\* totalDue = periodicFee * (currentMonthIndex + 1).
C6_FullAndNone ==
    Computed =>
        /\ PaidInFull(resident, settings, currentMonthIndex)
              => calc[1].totalDue = resident.previousDue
        /\ (resident.previousDue = Num(0) /\ resident.payments = <<>>)
              => calc[1].totalDue =
                    Num(PeriodicFee(resident, settings)
                        * (currentMonthIndex + 1))

C6_Witness ==
    /\ Computed
    /\ currentMonthIndex = MaxPeriod
    /\ PaidInFull(resident, settings, currentMonthIndex)
    /\ resident.previousDue # Num(0)

-----------------------------------------------------------------------------
(* The seeded units *)

Floors == 4

FlatsPerFloor == 3

ShopCount == 6

Digits == <<"0", "1", "2", "3", "4", "5", "6", "7", "8", "9">>

\* `${n}` for a one-digit number
DigitChar(n) == Digits[n + 1]

Str_Flat_ == <<"F", "l", "a", "t", " ">>

Str_Shop_S == <<"S", "h", "o", "p", " ", "S">>

Str_at_email == <<"@", "e", "m", "a", "i", "l", ".", "c", "o", "m">>

Str_password == <<"p", "a", "s", "s", "w", "o", "r", "d">>

\* the unit pushed for (floor, flat)
FlatUnit(floor, flat) ==
    LET unitNumber == <<DigitChar(floor), "0", DigitChar(flat)>>
    IN  [id          |-> Str_flat \o <<"-">> \o unitNumber,
         unitNumber  |-> Str_Flat_ \o unitNumber,
         ownerName   |-> <<>>,
         previousDue |-> Num(0),
         payments    |-> <<>>,
         email       |-> Str_flat \o unitNumber \o Str_at_email,
         password    |-> Str_password]

\* the unit pushed for shop i
ShopUnit(i) ==
    [id          |-> Str_shop \o <<"-", "S", DigitChar(i)>>,
     unitNumber  |-> Str_Shop_S \o <<DigitChar(i)>>,
     ownerName   |-> <<>>,
     previousDue |-> Num(0),
     payments    |-> <<>>,
     email       |-> Str_shop \o <<DigitChar(i)>> \o Str_at_email,
     password    |-> Str_password]

\* for floor = 1..4, for flat = 1..3: push; for i = 1..6: push
generateInitialResidents ==
    [n \in 1..(Floors * FlatsPerFloor + ShopCount) |->
        IF n <= Floors * FlatsPerFloor
        THEN FlatUnit(((n - 1) \div FlatsPerFloor) + 1,
                      ((n - 1) % FlatsPerFloor) + 1)
        ELSE ShopUnit(n - Floors * FlatsPerFloor)]

-----------------------------------------------------------------------------
(* parseFloat on the text of an input element *)

IsDigit(c) == \E d \in 1..Len(Digits) : Digits[d] = c

DigitValue(c) == (CHOOSE d \in 1..Len(Digits) : Digits[d] = c) - 1

\* the value of the longest run of digits of s starting at position i,
\* continuing the value acc
RECURSIVE DigitsFrom(_, _, _)
DigitsFrom(s, i, acc) ==
    IF i <= Len(s) /\ IsDigit(s[i])
    THEN DigitsFrom(s, i + 1, acc * 10 + DigitValue(s[i]))
    ELSE acc

\* parseFloat(s): optional sign, then the longest numeric prefix; NaN when
\* there is none. (Inputs hold no ".", exponent or white space.)
parseFloat(s) ==
    LET signed == Len(s) >= 1 /\ s[1] \in {"-", "+"}
        first  == IF signed THEN 2 ELSE 1
    IN  IF first <= Len(s) /\ IsDigit(s[first])
        THEN IF signed /\ s[1] = "-"
             THEN Num(0 - DigitsFrom(s, first, 0))
             ELSE Num(DigitsFrom(s, first, 0))
        ELSE NaN

-----------------------------------------------------------------------------
(* ResidentCard and Dashboard *)

\* variant: the cards keep the totals of the list they were first given
RenderCards_memoised(rs, s, month) ==
    [k \in DOMAIN rs |-> getResidentCalculations(residents[k], s, month)]

\* {residents.map((r) => <ResidentCard resident={r} settings=... />)}:
\* each card renders getResidentCalculations of its resident
RenderCards(rs, s, month) ==
    [k \in DOMAIN rs |-> getResidentCalculations(rs[k], s, month)]

\* if (!currentUser) return <LoginPage/>; if (loadingRemote) return loading;
\* return <Dashboard/>
DashboardShown == currentUser.role # "null" /\ ~loadingRemote

\* const isAdmin = currentUser.role === "admin";  editable={isAdmin}
editable == currentUser.role = "admin"

\* setResidents((prev) => prev.map((x) => (x.id === r.id ? r : x)))
updateResident(prev, r) ==
    [k \in DOMAIN prev |-> IF prev[k].id = r.id THEN r ELSE prev[k]]

\* onChange={(e) => editable && changePayment(i, parseFloat(e.target.value) || 0)}
\* changePayment: onChange({...resident, payments: {...payments, [index]: val}})
PaymentInput(k, i, input) ==
    /\ edits < MaxEdits
    /\ DashboardShown
    /\ editable
    /\ LET val == OrZero(parseFloat(input))
           r   == [residents[k] EXCEPT
                      !.payments = (i :> val) @@ residents[k].payments]
       IN  residents' = updateResident(residents, r)
    /\ shown' = RenderCards(residents', settings, currentMonthIndex)
    /\ lastEdit' = [field |-> "payment", unit |-> k, period |-> i,
                    input |-> input]
    /\ edits' = edits + 1
    /\ UNCHANGED <<settings, currentMonthIndex, currentUser, calcVars>>

\* the payment input of a card in the Apps without a save effect
ChangePayment(k, i, input) ==
    /\ PaymentInput(k, i, input)
    /\ UNCHANGED appVars

\* onChange={(e) => editable &&
\*   onChange({...resident, previousDue: parseFloat(e.target.value) || 0})}
ChangePreviousDue(k, input) ==
    /\ edits < MaxEdits
    /\ DashboardShown
    /\ editable
    /\ LET r == [residents[k] EXCEPT
                    !.previousDue = OrZero(parseFloat(input))]
       IN  residents' = updateResident(residents, r)
    /\ shown' = RenderCards(residents', settings, currentMonthIndex)
    /\ lastEdit' = [field |-> "previousDue", unit |-> k, period |-> 0,
                    input |-> input]
    /\ edits' = edits + 1
    /\ UNCHANGED <<settings, currentMonthIndex, currentUser, calcVars,
                   appVars>>

\* onChange={(e) => editable && onChange({...resident, ownerName: e.target.value})}
ChangeOwnerName(k, input) ==
    /\ edits < MaxEdits
    /\ DashboardShown
    /\ editable
    /\ LET r == [residents[k] EXCEPT !.ownerName = input]
       IN  residents' = updateResident(residents, r)
    /\ shown' = RenderCards(residents', settings, currentMonthIndex)
    /\ lastEdit' = [field |-> "ownerName", unit |-> k, period |-> 0,
                    input |-> input]
    /\ edits' = edits + 1
    /\ UNCHANGED <<settings, currentMonthIndex, currentUser, calcVars,
                   appVars>>

-----------------------------------------------------------------------------
(* Specification of the Dashboard: a list of units is handed to the        *)
(* Dashboard, the cards handle input events and re-render.                 *)

FirstFlat == 1

FirstShop == Floors * FlatsPerFloor + 1

\* a list as a stored document may hold it: amounts paid, a carried-over
\* due, and entries that are not numbers
LoadedResidents ==
    [generateInitialResidents EXCEPT
        ![FirstFlat].previousDue = Num(DefaultShopFee),
        ![FirstFlat].payments =
            (0 :> NaN) @@ (1 :> Num(HalfFlatFee))
                @@ (MaxPeriod :> Num(DefaultFlatFee + HalfFlatFee)),
        ![FirstShop].payments = (0 :> Num(DefaultFlatFee)) @@ (1 :> NaN)]

\* the cards that receive input events
EditUnits == {FirstFlat, FirstShop}

\* texts typed into the number inputs: empty, no number, numbers, a number
\* followed by other characters
EditInputs ==
    {<<>>, <<"x", "5">>, <<"5", "0", "0">>, <<"-", "2", "0", "0">>,
     <<"1", "5", "0", "0", "x">>}

OwnerNames == {<<"A">>}

AdminUser == [role |-> "admin"]

ResidentUser(r) == [role |-> "resident", resident |-> r]

InitEdit ==
    /\ AppIdle
    /\ \/ residents = generateInitialResidents /\ settings = DefaultSettings
       \/ residents = LoadedResidents /\ settings \in FeeSchedules
    /\ currentMonthIndex = EditMonth
    /\ currentUser \in {AdminUser, ResidentUser(residents[FirstFlat])}
    /\ shown = RenderCards(residents, settings, currentMonthIndex)
    /\ lastEdit = NoEdit
    /\ edits = 0
    /\ resident = Null
    /\ calc = <<>>

NextEdit ==
    \E k \in EditUnits :
        \/ \E i \in Periods, input \in EditInputs : ChangePayment(k, i, input)
        \/ \E input \in EditInputs : ChangePreviousDue(k, input)
        \/ \E input \in OwnerNames : ChangeOwnerName(k, input)

SpecEdit == InitEdit /\ [][NextEdit]_vars

-----------------------------------------------------------------------------
(* Properties of the Dashboard *)

\* the totalDue of a record, from the record alone
DueOf(r) ==
    Num(r.previousDue.v + ShortfallTo(r, settings, currentMonthIndex))

C7_ShownFromRecord ==
    \A k \in DOMAIN residents : shown[k].totalDue = DueOf(residents[k])

\* a step that handles a payment input of card k for period i
PaymentStep(k, i) ==
    /\ edits' = edits + 1
    /\ lastEdit'.field = "payment"
    /\ lastEdit'.unit = k
    /\ lastEdit'.period = i

C7_EditDelta ==
    \A k \in DOMAIN residents, i \in Periods :
        PaymentStep(k, i) =>
            /\ shown'[k].totalDue.v - shown[k].totalDue.v =
                   IF i <= currentMonthIndex
                   THEN ShortfallIn(residents'[k], settings, i)
                        - ShortfallIn(residents[k], settings, i)
                   ELSE 0
            /\ \A j \in DOMAIN residents \ {k} : shown'[j] = shown[j]

\* C7: the due is re-derived from the current record, never stored: after
\* any sequence of edits the totalDue shown is the one of the final record
\* alone, and changing the payment of a past period i from a to b changes
\* it by exactly max(0, fee - b) - max(0, fee - a).
C7_DueRederived == []C7_ShownFromRecord /\ [][C7_EditDelta]_vars

C7_Witness ==
    /\ edits = 2
    /\ lastEdit.field = "payment"
    /\ lastEdit.unit = FirstFlat
    /\ lastEdit.period = 0
    /\ residents[FirstFlat].payments[0] = Num(HalfFlatFee)
    /\ residents[FirstFlat].previousDue = Num(DefaultFlatFee + HalfFlatFee)
    /\ residents[FirstShop].payments # <<>>

\* the text holds no number: after an optional sign comes no digit
NonNumericText(input) ==
    LET body == IF input # <<>> /\ input[1] \in {"-", "+"}
                THEN Tail(input) ELSE input
    IN  \/ body = <<>>
        \/ body[1] \notin {"0", "1", "2", "3", "4", "5", "6", "7", "8", "9"}

\* the value stored by the last input event
StoredByLastEdit ==
    IF lastEdit.field = "payment"
    THEN residents[lastEdit.unit].payments[lastEdit.period]
    ELSE residents[lastEdit.unit].previousDue

HasNaNEntry(r) == \E i \in DOMAIN r.payments : r.payments[i] = NaN

\* C8: a non-numeric text entered for a payment or for previousDue is
\* stored as 0, and a payment entry that is not a number adds 0 to
\* totalPaid and counts as paid 0 in its period, so totalPaid and totalDue
\* are numbers.
C8_MalformedIsZero ==
    /\ lastEdit.field \in {"payment", "previousDue"} =>
          /\ StoredByLastEdit.kind = "num"
          /\ NonNumericText(lastEdit.input) => StoredByLastEdit = Num(0)
    /\ \A k \in DOMAIN residents :
          /\ shown[k].totalPaid =
                 Num(SumOver([i \in DOMAIN residents[k].payments |->
                                 PaidIn(residents[k], i)],
                             DOMAIN residents[k].payments))
          /\ shown[k].totalDue = DueOf(residents[k])

C8_Witness ==
    /\ lastEdit.field = "previousDue"
    /\ lastEdit.unit = FirstShop
    /\ lastEdit.input = <<"x", "5">>
    /\ HasNaNEntry(residents[FirstShop])
    /\ HasNaNEntry(residents[FirstFlat])
    /\ residents[FirstFlat].payments[1] = Num(0)

-----------------------------------------------------------------------------
(* The App component, manual-save variants:                                *)
(*   "index"    src/index.tsx, const App of Part 3 (lines 433-622)         *)
(*   "part_001" src/unnamed/part_001, const App (lines 358-464)            *)

Str_admin_email ==
    <<"a", "d", "m", "i", "n", "@", "s", "b", "d", "i", "v", "i", "n", "e",
      ".", "c", "o", "m">>

\* accounts of the identity provider
AdminIdentity ==
    [uid |-> "uid-admin", email |-> Str_admin_email,
     password |-> <<"s", "e", "c", "r", "e", "t">>]

FlatIdentity ==
    [uid |-> "uid-flat101", email |-> FlatUnit(1, 1).email,
     password |-> Str_password]

\* an account whose email belongs to no unit
OtherIdentity ==
    [uid |-> "uid-other", email |-> <<"x", "@", "y">>,
     password |-> Str_password]

Identities == {AdminIdentity, FlatIdentity, OtherIdentity}

Uids == {who.uid : who \in Identities}

\* documents of the remote store; fields names the fields the data holds
AbsentDoc ==
    [exists |-> FALSE, fields |-> {}, residents |-> <<>>, expenses |-> <<>>,
     settings |-> DefaultSettings]

SampleExpense ==
    [id |-> <<"1">>, description |-> <<"p", "u", "m", "p">>,
     amount |-> Num(HalfFlatFee), date |-> <<"2", "0", "2", "5">>]

StoredDoc ==
    [exists |-> TRUE, fields |-> {"residents", "expenses", "settings"},
     residents |-> LoadedResidents, expenses |-> <<SampleExpense>>,
     settings |-> [flatMonthlyFee |-> Num(HalfFlatFee),
                   shopMonthlyFee |-> Num(DefaultFlatFee)]]

\* a document without residents and settings
PartialDoc ==
    [exists |-> TRUE, fields |-> {"expenses"},
     residents |-> <<>>, expenses |-> <<SampleExpense>>,
     settings |-> DefaultSettings]

\* data.field || fallback
DataOr(doc, field, value, fallback) ==
    IF field \in doc.fields THEN value ELSE fallback

\* setDoc(ref, {residents, expenses, settings, createdAt})
NewDoc(rs, es, st) ==
    [exists |-> TRUE,
     fields |-> {"residents", "expenses", "settings", "createdAt"},
     residents |-> rs, expenses |-> es, settings |-> st]

\* updateDoc(ref, {residents, expenses, settings, updatedAt})
UpdatedDoc(doc, rs, es, st) ==
    [exists |-> TRUE,
     fields |-> doc.fields
                \cup {"residents", "expenses", "settings", "updatedAt"},
     residents |-> rs, expenses |-> es, settings |-> st]

\* residents.find(pred): index of the first match, 0 when none
FindFirst(S) == IF S = {} THEN 0 ELSE Min(S)

FindByEmail(rs, email) ==
    FindFirst({k \in DOMAIN rs : rs[k].email = email})

FindByEmailAndPassword(rs, email, password) ==
    FindFirst({k \in DOMAIN rs :
                  rs[k].email = email /\ rs[k].password = password})

\* variant: the effect has no cleanup, a subscription outlives its uid
LoadEffect_noCleanup(u) ==
    IF u = uid \/ u = NullUid
    THEN UNCHANGED bindVars
    ELSE /\ listener' = [uid |-> u, status |-> "waiting", pending |-> TRUE]
         /\ loadingRemote' = TRUE
         /\ lastCreate' = NoCreate
         /\ createCalls' = 0
         /\ lastWrite' = NoWrite

\* variant: the effect subscribes without setLoadingRemote(true)
LoadEffect_noLoading(u) ==
    IF u = uid
    THEN UNCHANGED bindVars
    ELSE /\ listener' = IF u = NullUid THEN NoListener
                        ELSE [uid |-> u, status |-> "waiting",
                              pending |-> TRUE]
         /\ lastCreate' = NoCreate
         /\ createCalls' = 0
         /\ lastWrite' = NoWrite
         /\ UNCHANGED loadingRemote

\* the load effect, useEffect(..., [uid]), as it runs when uid becomes u:
\* the cleanup of the previous run unsubscribes; if (!uid) return;
\* setLoadingRemote(true); onSnapshot(ref, ...)
\* lastCreate, createCalls and lastWrite record the calls made since the
\* current subscription began
LoadEffect(u) ==
    IF u = uid
    THEN UNCHANGED bindVars
    ELSE IF u = NullUid
    THEN /\ listener' = NoListener
         /\ lastCreate' = NoCreate
         /\ createCalls' = 0
         /\ lastWrite' = NoWrite
         /\ UNCHANGED loadingRemote
    ELSE /\ listener' = [uid |-> u, status |-> "waiting", pending |-> TRUE]
         /\ loadingRemote' = TRUE
         /\ lastCreate' = NoCreate
         /\ createCalls' = 0
         /\ lastWrite' = NoWrite

\* what the debounced write will carry: the residents, expenses and
\* settings of the render that set the timer, and the document of its uid
PendingSave(u, rs, es, st) ==
    [uid |-> u, stage |-> "update", residents |-> rs, expenses |-> es,
     settings |-> st]

\* variant: the timer set before is left to run
SaveEffect_noCancel(triggered) ==
    IF variant # "auto" \/ ~triggered
    THEN UNCHANGED <<localVars, timers>>
    ELSE IF uid' = NullUid
    THEN /\ localResidents' = residents'
         /\ localExpenses' = expenses'
         /\ localStorage' =
               [localStorage EXCEPT
                   !.residents_v2 = JsonItem(JsonResidents(residents')),
                   !.expenses_v2 = JsonItem(JsonExpenses(expenses'))]
         /\ timers' = timers
         /\ UNCHANGED localSettings
    ELSE /\ timers' = Append(timers, PendingSave(uid', residents', expenses',
                                                 settings'))
         /\ UNCHANGED localVars

\* the save effect of the auto-save App,
\* useEffect(..., [residents, expenses, settings, uid]); triggered: one of
\* the four is a new value in the step that runs it. The cleanup of the
\* previous run clears the timer;
\* if (!uid) { setLocalResidents(residents); setLocalExpenses(expenses);
\* return; }  (the effects of usePersistentState then write the two items)
\* clearTimeout(saveTimerRef.current);
\* saveTimerRef.current = setTimeout(write, 700)
\* The manual-save Apps have no such effect and no setter of the local
\* state.
SaveEffect(triggered) ==
    IF variant # "auto" \/ ~triggered
    THEN UNCHANGED <<localVars, timers>>
    ELSE IF uid' = NullUid
    THEN /\ localResidents' = residents'
         /\ localExpenses' = expenses'
         /\ localStorage' =
               [localStorage EXCEPT
                   !.residents_v2 = JsonItem(JsonResidents(residents')),
                   !.expenses_v2 = JsonItem(JsonExpenses(expenses'))]
         /\ timers' = <<>>
         /\ UNCHANGED localSettings
    ELSE /\ timers' = <<PendingSave(uid', residents', expenses', settings')>>
         /\ UNCHANGED localVars

\* what a handler shows the user and what it logs
Report(shownToUser, logged) ==
    /\ notice' = shownToUser
    /\ console' = logged

\* the residents the auth listener's callback reads: index subscribes again
\* whenever residents changes, the other Apps subscribe once and keep the
\* residents of the first render
ListenerResidents ==
    IF variant = "index" THEN residents ELSE firstResidents

\* variant: no admin short-circuit, every address is looked up in the units
ResolvedRole_noShortCircuit(user, list) ==
    LET k == FindByEmail(list, user.email)
    IN  IF k # 0 THEN ResidentUser(list[k])
        ELSE IF variant \in {"index", "part_001"} THEN currentUser
        ELSE Null

\* variant: a user matching no unit is bound to the first unit
ResolvedRole_guest(user, list) ==
    IF user.email = Str_admin_email THEN AdminUser
    ELSE LET k == FindByEmail(list, user.email)
         IN  IF k # 0 THEN ResidentUser(list[k])
             ELSE ResidentUser(list[1])

\* the role the auth listener resolves for a signed-in user
\* index, part_001: a user matching no unit leaves currentUser as it is
\* part_000, auto-save: else setCurrentUser(null)
ResolvedRole(user, list) ==
    IF user.email = Str_admin_email THEN AdminUser
    ELSE LET k == FindByEmail(list, user.email)
         IN  IF k # 0 THEN ResidentUser(list[k])
             ELSE IF variant \in {"index", "part_001"} THEN currentUser
             ELSE Null

\* variant: a rejected sign-in is logged but the page shows nothing
handleLogin_silent(who, accepted) ==
    /\ variant \in {"index", "part_000", "part_001"}
    /\ currentUser = Null
    /\ ~accepted
    /\ Report(Quiet, IF variant = "index" THEN "Login error" ELSE Quiet)
    /\ UNCHANGED <<authUser, uid, currentUser, bindVars>>
    /\ UNCHANGED <<settings, currentMonthIndex, calcVars, residents, shown,
                   lastEdit, edits, variant, mounted, expenses, localVars, docs,
                   firstResidents, timers, inflight>>

\* handleLogin, called by LoginPage.submit / Auth.submit
\* index: signInWithEmailAndPassword; setUid(user.uid); admin email ->
\*   admin, true; a unit with this email and password -> resident, true;
\*   else false; a rejected sign-in is caught, logged and returns false;
\*   submit: if (!ok) setError("Invalid credentials")
\* part_000, part_001: await signInWithEmailAndPassword(auth, email, password)
\*   submit: catch { setErr("Invalid credentials") }
handleLogin(who, accepted) ==
    /\ variant \in {"index", "part_000", "part_001"}
    /\ currentUser = Null
    /\ IF ~accepted
       THEN /\ UNCHANGED <<authUser, uid, currentUser, bindVars>>
            /\ Report("Invalid credentials",
                      IF variant = "index" THEN "Login error" ELSE Quiet)
       ELSE IF variant = "index"
       THEN LET k == FindByEmailAndPassword(residents, who.email,
                                            who.password)
                resolved == who.email = Str_admin_email \/ k # 0
            IN  /\ authUser' = who
                /\ uid' = who.uid
                /\ LoadEffect(who.uid)
                /\ currentUser' =
                      IF who.email = Str_admin_email THEN AdminUser
                      ELSE IF k # 0 THEN ResidentUser(residents[k])
                      ELSE currentUser
                /\ Report(IF resolved THEN Quiet ELSE "Invalid credentials",
                          Quiet)
       ELSE /\ authUser' = who
            /\ UNCHANGED <<uid, currentUser, bindVars>>
            /\ Report(Quiet, Quiet)
    /\ UNCHANGED <<settings, currentMonthIndex, calcVars, residents, shown,
                   lastEdit, edits, variant, mounted, expenses, localVars, docs,
                   firstResidents, timers, inflight>>

\* the callback of onAuthStateChanged(auth, (user) => ...): the provider
\* calls it on every session change and whenever the effect subscribes
\* again
AuthStateChanged ==
    /\ variant \in {"index", "part_000", "part_001", "auto"}
    /\ IF authUser = NoUser
       THEN /\ uid' = NullUid
            /\ currentUser' = Null
            /\ LoadEffect(NullUid)
       ELSE /\ uid' = authUser.uid
            /\ LoadEffect(authUser.uid)
            /\ currentUser' = ResolvedRole(authUser, ListenerResidents)
    /\ Report(Quiet, Quiet)
    /\ UNCHANGED <<settings, currentMonthIndex, calcVars, residents, shown,
                   lastEdit, edits, variant, mounted, expenses, authUser, docs,
                   firstResidents, inflight>>
    /\ SaveEffect(uid' # uid)

\* the document the load effect creates when the snapshot does not exist
\* index, part_000, auto-save: {residents: localResidents,
\*         expenses: localExpenses, settings: localSettings, createdAt}
\* part_001: {residents: generateInitialResidents(), expenses: [],
\*            settings: {flatMonthlyFee: 1000, shopMonthlyFee: 200}, createdAt}
SeedDoc ==
    IF variant = "part_001"
    THEN NewDoc(generateInitialResidents, <<>>, DefaultSettings)
    ELSE NewDoc(localResidents, localExpenses, localSettings)

\* the snapshot callback of the load effect, less what it does to the
\* debounce timer; ok: the outcome of setDoc
SnapshotLoad(ok) ==
    /\ listener.status \in {"waiting", "live"}
    /\ listener.pending
    /\ LET doc == docs[listener.uid]
       IN  IF doc.exists
           THEN /\ ok
                /\ residents' = DataOr(doc, "residents", doc.residents,
                                       generateInitialResidents)
                /\ expenses' = DataOr(doc, "expenses", doc.expenses, <<>>)
                /\ settings' = DataOr(doc, "settings", doc.settings,
                                      DefaultSettings)
                /\ listener' = [listener EXCEPT !.status = "live",
                                                !.pending = FALSE]
                /\ UNCHANGED <<docs, lastCreate, createCalls>>
                /\ Report(Quiet, Quiet)
           ELSE /\ lastCreate' =
                      [uid |-> listener.uid, doc |-> SeedDoc,
                       first |-> listener.status = "waiting",
                       calls |-> createCalls + 1,
                       residents |-> residents, expenses |-> expenses,
                       settings |-> settings]
                /\ createCalls' = createCalls + 1
                /\ docs' = IF ok THEN [docs EXCEPT ![listener.uid] = SeedDoc]
                           ELSE docs
                /\ listener' = [listener EXCEPT !.status = "live",
                                                !.pending = ok]
                /\ UNCHANGED <<residents, expenses, settings>>
                /\ Report(Quiet,
                          IF variant = "auto" /\ ~ok
                          THEN "Error creating user doc" ELSE Quiet)
    /\ loadingRemote' = FALSE
    /\ shown' = RenderCards(residents', settings', currentMonthIndex)
    /\ UNCHANGED <<currentMonthIndex, calcVars, currentUser, lastEdit, edits,
                   variant, mounted, uid, authUser, firstResidents>>

\* the snapshot callback and the effects its state changes run: an
\* existing document gives residents, expenses and settings new values
Snapshot(ok) ==
    /\ variant \in {"index", "part_000", "part_001", "auto"}
    /\ SnapshotLoad(ok)
    /\ UNCHANGED <<inflight, lastWrite>>
    /\ SaveEffect(docs[listener.uid].exists)

\* the error callback of onSnapshot, less what it leaves alone
\* index, auto-save: (err) => { console.error(...); setLoadingRemote(false); }
\* part_000: () => setLoadingRemote(false)
\* part_001: onSnapshot is given no error callback
SnapshotFailure ==
    /\ listener.status \in {"waiting", "live"}
    /\ listener.pending
    /\ listener' = [listener EXCEPT !.status = "failed", !.pending = FALSE]
    /\ loadingRemote' = IF variant = "part_001" THEN loadingRemote ELSE FALSE
    /\ Report(Quiet, IF variant = "index" THEN "Snapshot error"
                     ELSE IF variant = "auto" THEN "Firestore snapshot error"
                     ELSE Quiet)

SnapshotError ==
    /\ variant \in {"index", "part_000", "part_001", "auto"}
    /\ SnapshotFailure
    /\ UNCHANGED <<settings, currentMonthIndex, calcVars, dashboardVars,
                   variant, mounted, expenses, localVars, uid, authUser, docs,
                   lastCreate, createCalls, firstResidents, saveVars>>

\* the call a save makes: op is "update" (updateDoc) or "set" (setDoc with
\* merge), calls counts the calls of this handler run
WriteCall(op, u, ok, calls) ==
    [op |-> op, uid |-> u, ok |-> ok, calls |-> calls]

\* variant: a rejected save is tried a second time and not reported
handleSave_silentRetry(ok) ==
    /\ variant \in {"index", "part_000", "part_001"}
    /\ DashboardShown
    /\ currentUser.role = "admin"
    /\ uid # NullUid
    /\ LET done == docs[uid].exists /\ ok
       IN  /\ lastWrite' = WriteCall("update", uid, done,
                                     IF done THEN 1 ELSE 2)
           /\ docs' =
                 IF done
                 THEN [docs EXCEPT
                         ![uid] = UpdatedDoc(@, residents, expenses,
                                             settings)]
                 ELSE docs
           /\ listener' =
                 IF done /\ listener.uid = uid /\ listener.status = "live"
                 THEN [listener EXCEPT !.pending = TRUE]
                 ELSE listener
           /\ Report(IF done THEN "Data saved" ELSE Quiet,
                     IF done THEN Quiet ELSE "Save error")
    /\ UNCHANGED <<settings, currentMonthIndex, calcVars, dashboardVars,
                   variant, mounted, expenses, localVars, uid, loadingRemote,
                   authUser,
                   lastCreate, createCalls, firstResidents, timers, inflight>>

\* handleSaveToFirestore / handleSave, the Save Changes button of an admin;
\* ok: the outcome of updateDoc, which fails on a missing document
\* index: if (!uid) { alert("You are not logged in."); return; }
\* part_000, part_001: if (!uid) return;
\* try { await updateDoc(...); alert(saved) } catch { console.error; alert }
handleSave(ok) ==
    /\ variant \in {"index", "part_000", "part_001"}
    /\ DashboardShown
    /\ currentUser.role = "admin"
    /\ IF uid = NullUid
       THEN /\ UNCHANGED <<docs, listener, lastWrite>>
            /\ Report(IF variant = "index" THEN "You are not logged in."
                      ELSE Quiet, Quiet)
       ELSE LET done == docs[uid].exists /\ ok
            IN  /\ lastWrite' = WriteCall("update", uid, done, 1)
                /\ docs' =
                      IF done
                      THEN [docs EXCEPT
                              ![uid] = UpdatedDoc(@, residents, expenses,
                                                  settings)]
                      ELSE docs
                /\ listener' =
                      IF done /\ listener.uid = uid
                              /\ listener.status = "live"
                      THEN [listener EXCEPT !.pending = TRUE]
                      ELSE listener
                /\ Report(IF done THEN "Data saved" ELSE "Error saving data",
                          IF done THEN Quiet ELSE "Save error")
    /\ UNCHANGED <<settings, currentMonthIndex, calcVars, dashboardVars,
                   variant, mounted, expenses, localVars, uid, loadingRemote,
                   authUser,
                   lastCreate, createCalls, firstResidents, timers, inflight>>

\* handleLogout, the Logout button of the Dashboard
\* index: signOut(auth); setCurrentUser(null); setUid(null)
\* auto-save: await signOut(auth); setUid(null); setCurrentUser(null)
\* part_000, part_001: signOut(auth)
handleLogout ==
    /\ variant \in {"index", "part_000", "part_001", "auto"}
    /\ DashboardShown
    /\ authUser' = NoUser
    /\ IF variant \in {"index", "auto"}
       THEN /\ currentUser' = Null
            /\ uid' = NullUid
            /\ LoadEffect(NullUid)
       ELSE UNCHANGED <<currentUser, uid, bindVars>>
    /\ Report(Quiet, Quiet)
    /\ UNCHANGED <<settings, currentMonthIndex, calcVars, residents, shown,
                   lastEdit, edits, variant, mounted, expenses, docs,
                   firstResidents,
                   inflight>>
    /\ SaveEffect(uid' # uid)

-----------------------------------------------------------------------------
(* Specification of the manual-save Apps *)

\* a list found in local storage: units with an owner and a payment
StoredLocalResidents ==
    [generateInitialResidents EXCEPT
        ![FirstFlat].ownerName = <<"B">>,
        ![FirstFlat].payments = (0 :> Num(DefaultFlatFee))]

\* the text typed in the App behaviours
ManualInput == <<"5", "0", "0">>

\* the remote store at the start: the admin's document exists and the
\* resident's does not, or the resident's exists with fields missing
InitialDocs ==
    {[u \in Uids |-> IF u = AdminIdentity.uid THEN StoredDoc ELSE AbsentDoc],
     [u \in Uids |-> IF u = FlatIdentity.uid THEN PartialDoc ELSE AbsentDoc]}

\* the App after its first render, nobody signed in
AppMounted ==
    /\ mounted = TRUE
    /\ localExpenses = <<>>
    /\ localSettings = DefaultSettings
    /\ localStorage =
          IF variant = "part_001" THEN EmptyStorage
          ELSE Persisted(localResidents, localExpenses, localSettings)
    /\ residents = localResidents
    /\ expenses = localExpenses
    /\ settings = localSettings
    /\ firstResidents = residents
    /\ currentUser = Null
    /\ uid = NullUid
    /\ loadingRemote = FALSE
    /\ authUser = NoUser
    /\ listener = NoListener
    /\ docs \in InitialDocs
    /\ lastCreate = NoCreate
    /\ createCalls = 0
    /\ timers = <<>>
    /\ inflight = <<>>
    /\ lastWrite = NoWrite
    /\ notice = Quiet
    /\ console = Quiet
    /\ currentMonthIndex = EditMonth
    /\ shown = RenderCards(residents, settings, currentMonthIndex)
    /\ lastEdit = NoEdit
    /\ edits = 0
    /\ resident = Null
    /\ calc = <<>>

InitManual ==
    /\ variant \in {"index", "part_000", "part_001"}
    /\ localResidents = IF variant = "part_001" THEN generateInitialResidents
                        ELSE StoredLocalResidents
    /\ AppMounted

\* one payment is typed in a behaviour of the App
ManualEdit ==
    /\ edits = 0
    /\ ChangePayment(FirstFlat, 0, ManualInput)

NextManual ==
    \/ \E who \in Identities, accepted \in BOOLEAN : handleLogin(who, accepted)
    \/ AuthStateChanged
    \/ \E ok \in BOOLEAN : Snapshot(ok)
    \/ SnapshotError
    \/ \E ok \in BOOLEAN : handleSave(ok)
    \/ handleLogout
    \/ ManualEdit

SpecManual == InitManual /\ [][NextManual]_vars

-----------------------------------------------------------------------------
(* The auto-save App (index.tsx, second App component) *)

\* handleSubmit of the Auth component the auto-save App renders when
\* currentUser is null: signInWithEmailAndPassword (or, in signup mode,
\* createUserWithEmailAndPassword); catch (error) { alert(error.message) }
\* The component takes no props, the App's handleLogin is not called.
AuthSubmit(who, accepted) ==
    /\ variant = "auto"
    /\ currentUser = Null
    /\ IF accepted
       THEN authUser' = who /\ Report(Quiet, Quiet)
       ELSE UNCHANGED authUser /\ Report("error.message", Quiet)
    /\ UNCHANGED <<settings, currentMonthIndex, calcVars, dashboardVars,
                   variant, mounted, expenses, localVars, uid, docs,
                   firstResidents,
                   timers, inflight, bindVars>>

\* the payment input of a card in the auto-save App: setResidents runs the
\* save effect
AutoChangePayment(k, i, input) ==
    /\ variant = "auto"
    /\ PaymentInput(k, i, input)
    /\ UNCHANGED <<variant, mounted, expenses, uid, authUser, docs,
                   firstResidents,
                   inflight, bindVars, outVars>>
    /\ SaveEffect(TRUE)

\* the timer callback: the 700 ms have passed; await updateDoc(ref,
\* {residents, expenses, settings}) is issued
TimerFire ==
    /\ variant = "auto"
    /\ timers # <<>>
    /\ Len(inflight) < MaxInflight
    /\ inflight' = Append(inflight, Head(timers))
    /\ timers' = Tail(timers)
    /\ Report(Quiet, Quiet)
    /\ UNCHANGED <<settings, currentMonthIndex, calcVars, dashboardVars,
                   variant, mounted, expenses, localVars, uid, authUser, docs,
                   firstResidents, bindVars>>

\* updateDoc(ref, {residents, expenses, settings}): no timestamp field
SavedDoc(doc, w) ==
    [exists |-> TRUE,
     fields |-> doc.fields \cup {"residents", "expenses", "settings"},
     residents |-> w.residents, expenses |-> w.expenses,
     settings |-> w.settings]

\* the subscription is told of a change of the document it watches
Notified(u, before, after) ==
    IF listener.uid = u /\ listener.status = "live" /\ before # after
    THEN [listener EXCEPT !.pending = TRUE]
    ELSE listener

\* the updateDoc of the timer callback settles; ok: the store accepts it
\* (it rejects an update of a missing document). On rejection the catch
\* block issues setDoc(ref, {..., updatedAt}, {merge: true})
UpdateResult(ok) ==
    /\ variant = "auto"
    /\ inflight # <<>>
    /\ Head(inflight).stage = "update"
    /\ LET w    == Head(inflight)
           done == docs[w.uid].exists /\ ok
           doc  == SavedDoc(docs[w.uid], w)
       IN  /\ docs' = IF done THEN [docs EXCEPT ![w.uid] = doc] ELSE docs
           /\ listener' = IF done THEN Notified(w.uid, docs[w.uid], doc)
                          ELSE listener
           /\ inflight' = IF done THEN Tail(inflight)
                          ELSE <<[w EXCEPT !.stage = "set"]>>
                                   \o Tail(inflight)
    /\ Report(Quiet, Quiet)
    /\ UNCHANGED <<settings, currentMonthIndex, calcVars, dashboardVars,
                   variant, mounted, expenses, localVars, uid, authUser,
                   firstResidents, timers, loadingRemote, lastCreate,
                   createCalls, lastWrite>>

\* variant: a rejected fallback is tried again
FallbackResult_retry(ok) ==
    /\ variant = "auto"
    /\ inflight # <<>>
    /\ Head(inflight).stage = "set"
    /\ LET w   == Head(inflight)
           doc == UpdatedDoc(docs[w.uid], w.residents, w.expenses,
                             w.settings)
       IN  /\ docs' = IF ok THEN [docs EXCEPT ![w.uid] = doc] ELSE docs
           /\ listener' = IF ok THEN Notified(w.uid, docs[w.uid], doc)
                          ELSE listener
           /\ inflight' = IF ok THEN Tail(inflight) ELSE inflight
    /\ Report(Quiet, IF ok THEN Quiet ELSE "Error saving to Firestore")
    /\ UNCHANGED <<settings, currentMonthIndex, calcVars, dashboardVars,
                   variant, mounted, expenses, localVars, uid, authUser,
                   firstResidents, timers, loadingRemote, lastCreate,
                   createCalls, lastWrite>>

\* the merge setDoc of the catch block settles; a rejection is caught:
\* console.error("Error saving to Firestore:", e)
FallbackResult(ok) ==
    /\ variant = "auto"
    /\ inflight # <<>>
    /\ Head(inflight).stage = "set"
    /\ LET w   == Head(inflight)
           doc == UpdatedDoc(docs[w.uid], w.residents, w.expenses,
                             w.settings)
       IN  /\ docs' = IF ok THEN [docs EXCEPT ![w.uid] = doc] ELSE docs
           /\ listener' = IF ok THEN Notified(w.uid, docs[w.uid], doc)
                          ELSE listener
           /\ inflight' = Tail(inflight)
    /\ Report(Quiet, IF ok THEN Quiet ELSE "Error saving to Firestore")
    /\ UNCHANGED <<settings, currentMonthIndex, calcVars, dashboardVars,
                   variant, mounted, expenses, localVars, uid, authUser,
                   firstResidents, timers, loadingRemote, lastCreate,
                   createCalls, lastWrite>>

\* the texts typed in the auto-save behaviours
AutoInputs == {<<"5", "0", "0">>, <<"7">>}

\* the account that signs in in the auto-save behaviours
AutoIdentities == {AdminIdentity}

InitAuto ==
    /\ variant = "auto"
    /\ localResidents = StoredLocalResidents
    /\ AppMounted

NextAuto ==
    \/ \E who \in AutoIdentities, accepted \in BOOLEAN :
            AuthSubmit(who, accepted)
    \/ AuthStateChanged
    \/ \E ok \in BOOLEAN : Snapshot(ok)
    \/ handleLogout
    \/ \E input \in AutoInputs : AutoChangePayment(FirstFlat, 0, input)
    \/ TimerFire
    \/ \E ok \in BOOLEAN : UpdateResult(ok)
    \/ \E ok \in BOOLEAN : FallbackResult(ok)

SpecAuto == InitAuto /\ [][NextAuto]_vars

-----------------------------------------------------------------------------
(* Specification of one session of the auto-save App: the admin has       *)
(* signed in and the auth listener has run, so the subscription waits for *)
(* its first snapshot and the save effect has set its first timer.        *)

InitSave ==
    /\ variant = "auto"
    /\ mounted = TRUE
    /\ localResidents = StoredLocalResidents
    /\ localExpenses = <<>>
    /\ localSettings = DefaultSettings
    /\ localStorage =
          Persisted(localResidents, localExpenses, localSettings)
    /\ residents = localResidents
    /\ expenses = localExpenses
    /\ settings = localSettings
    /\ firstResidents = residents
    /\ authUser = AdminIdentity
    /\ uid = AdminIdentity.uid
    /\ currentUser = AdminUser
    /\ loadingRemote = TRUE
    /\ listener = [uid |-> uid, status |-> "waiting", pending |-> TRUE]
    /\ docs \in InitialDocs
    /\ lastCreate = NoCreate
    /\ createCalls = 0
    /\ timers = <<PendingSave(uid, residents, expenses, settings)>>
    /\ inflight = <<>>
    /\ lastWrite = NoWrite
    /\ notice = Quiet
    /\ console = Quiet
    /\ currentMonthIndex = EditMonth
    /\ shown = RenderCards(residents, settings, currentMonthIndex)
    /\ lastEdit = NoEdit
    /\ edits = 0
    /\ resident = Null
    /\ calc = <<>>

NextSave ==
    \/ \E ok \in BOOLEAN : Snapshot(ok)
    \/ \E input \in AutoInputs : AutoChangePayment(FirstFlat, 0, input)
    \/ TimerFire
    \/ \E ok \in BOOLEAN : UpdateResult(ok)
    \/ \E ok \in BOOLEAN : FallbackResult(ok)
    \/ handleLogout

SpecSave == InitSave /\ [][NextSave]_vars

-----------------------------------------------------------------------------
(* Sessions of the auto-save App: sign-ins, the callbacks of the auth      *)
(* listener and of the subscription, logout, and the end of a session      *)
(* that the App did not ask for.                                           *)

\* the identity provider ends the session without a call of this App (the
\* user signs out in another tab, the account is disabled); the auth
\* listener is told afterwards: onAuthStateChanged(auth, (user) => ...)
\* with user null
SessionEnded ==
    /\ authUser # NoUser
    /\ authUser' = NoUser
    /\ UNCHANGED <<settings, currentMonthIndex, calcVars, dashboardVars,
                   variant, mounted, expenses, localVars, uid, docs,
                   firstResidents, timers, inflight, bindVars, outVars>>

NextSession ==
    \/ \E who \in Identities, accepted \in BOOLEAN : AuthSubmit(who, accepted)
    \/ AuthStateChanged
    \/ \E ok \in BOOLEAN : Snapshot(ok)
    \/ SnapshotError
    \/ handleLogout
    \/ SessionEnded

SpecSession == InitAuto /\ [][NextSession]_vars

-----------------------------------------------------------------------------
(* The first render of an App with a local store (index.tsx both Apps,     *)
(* part_000): the three usePersistentState hooks read their items.         *)
(* part_001 has no local store.                                            *)

\* the page is loaded and the App has not rendered: no state exists yet
Unmounted ==
    /\ mounted = FALSE
    /\ localResidents = <<>>
    /\ localExpenses = <<>>
    /\ localSettings = DefaultSettings
    /\ residents = <<>>
    /\ expenses = <<>>
    /\ settings = DefaultSettings
    /\ firstResidents = <<>>
    /\ shown = <<>>
    /\ currentUser = Null
    /\ uid = NullUid
    /\ loadingRemote = FALSE
    /\ authUser = NoUser
    /\ listener = NoListener
    /\ lastCreate = NoCreate
    /\ createCalls = 0
    /\ timers = <<>>
    /\ inflight = <<>>
    /\ lastWrite = NoWrite
    /\ notice = Quiet
    /\ console = Quiet
    /\ lastEdit = NoEdit
    /\ edits = 0
    /\ resident = Null
    /\ calc = <<>>

\* the first render: the hooks compute their initial state, useState takes
\* it as the initial residents, expenses and settings, and the effects of
\* the hooks write the items; writable: setItem does not throw
Mount(writable) ==
    /\ ~mounted
    /\ mounted' = TRUE
    /\ localResidents' = usePersistentState(localStorage.residents_v2,
                                            generateInitialResidents)
    /\ localExpenses' = usePersistentState(localStorage.expenses_v2, <<>>)
    /\ localSettings' = usePersistentState(localStorage.settings_v2,
                                           DefaultSettings)
    /\ residents' = localResidents'
    /\ expenses' = localExpenses'
    /\ settings' = localSettings'
    /\ firstResidents' = residents'
    /\ shown' = RenderCards(residents', settings', currentMonthIndex)
    /\ localStorage' =
          IF writable
          THEN Persisted(localResidents', localExpenses', localSettings')
          ELSE localStorage
    /\ UNCHANGED <<variant, currentMonthIndex, calcVars, currentUser,
                   lastEdit, edits, uid, authUser, docs, inflight, timers,
                   bindVars, outVars>>

\* the page is loaded again: the state of the components is gone, the
\* local store is kept
Reload ==
    /\ mounted
    /\ uid = NullUid
    /\ mounted' = FALSE
    /\ localResidents' = <<>>
    /\ localExpenses' = <<>>
    /\ localSettings' = DefaultSettings
    /\ residents' = <<>>
    /\ expenses' = <<>>
    /\ settings' = DefaultSettings
    /\ firstResidents' = <<>>
    /\ shown' = <<>>
    /\ Report(Quiet, Quiet)
    /\ UNCHANGED <<variant, currentMonthIndex, calcVars, currentUser,
                   lastEdit, edits, uid, authUser, docs, inflight, timers,
                   bindVars, localStorage>>

\* what the key residents_v2 may hold when the page is loaded: nothing,
\* the empty string, text that is not JSON, and lists written earlier
ResidentItems ==
    {NoItem, TextItem(<<>>), TextItem(<<"{">>), JsonItem(<<>>),
     JsonItem(JsonResidents(generateInitialResidents)),
     JsonItem(JsonResidents(StoredLocalResidents)),
     JsonItem(JsonResidents(LoadedResidents))}

ExpenseItems == {NoItem, JsonItem(<<SampleExpense>>)}

SettingsItems == {NoItem, JsonItem(StoredDoc.settings)}

InitMount ==
    /\ variant \in {"index", "part_000", "auto"}
    /\ localStorage \in [residents_v2 : ResidentItems,
                         expenses_v2 : ExpenseItems,
                         settings_v2 : SettingsItems]
    /\ docs \in InitialDocs
    /\ currentMonthIndex = EditMonth
    /\ Unmounted

NextMount ==
    \/ \E writable \in BOOLEAN : Mount(writable)
    \/ Reload

SpecMount == InitMount /\ [][NextMount]_vars

-----------------------------------------------------------------------------
(* The Expenses tab of the auto-save Dashboard (index.tsx 1107-1132,       *)
(* 1172-1225); the Dashboards of the manual-save Apps have no expense      *)
(* handlers.                                                               *)

\* {id: Date.now().toString(), description, amount: parseFloat(amount), date}
NewExpense(id, description, amount, date) ==
    [id |-> id, description |-> description, amount |-> parseFloat(amount),
     date |-> date]

\* variant: an expense whose id is already listed is replaced in place
handleAddExpense_upsert(now, description, amount, date) ==
    /\ variant = "auto"
    /\ edits < MaxEdits
    /\ DashboardShown
    /\ editable
    /\ lastEdit' = [field |-> "addExpense", id |-> now,
                    description |-> description, amount |-> amount,
                    date |-> date]
    /\ edits' = edits + 1
    /\ UNCHANGED <<settings, currentMonthIndex, calcVars, residents,
                   currentUser, shown, variant, mounted, uid, authUser, docs,
                   firstResidents, inflight, bindVars, outVars>>
    /\ IF description = <<>> \/ amount = <<>>
       THEN /\ UNCHANGED expenses
            /\ SaveEffect(FALSE)
       ELSE /\ expenses' =
                  IF \E k \in DOMAIN expenses : expenses[k].id = now
                  THEN [k \in DOMAIN expenses |->
                           IF expenses[k].id = now
                           THEN NewExpense(now, description, amount, date)
                           ELSE expenses[k]]
                  ELSE Append(expenses,
                              NewExpense(now, description, amount, date))
            /\ SaveEffect(TRUE)

\* handleAddExpense, the submit of the form an admin is shown; now: the
\* text of Date.now(); description, amount, date: the texts of newExpense
\* if (!newExpense.description || !newExpense.amount) return;
\* setExpenses([...expenses, {id, description, amount, date}])
handleAddExpense(now, description, amount, date) ==
    /\ variant = "auto"
    /\ edits < MaxEdits
    /\ DashboardShown
    /\ editable
    /\ lastEdit' = [field |-> "addExpense", id |-> now,
                    description |-> description, amount |-> amount,
                    date |-> date]
    /\ edits' = edits + 1
    /\ UNCHANGED <<settings, currentMonthIndex, calcVars, residents,
                   currentUser, shown, variant, mounted, uid, authUser, docs,
                   firstResidents, inflight, bindVars, outVars>>
    /\ IF description = <<>> \/ amount = <<>>
       THEN /\ UNCHANGED expenses
            /\ SaveEffect(FALSE)
       ELSE /\ expenses' = Append(expenses,
                                  NewExpense(now, description, amount, date))
            /\ SaveEffect(TRUE)

\* expenses.filter((e) => e.id !== id)
WithoutId(es, id) == SelectSeq(es, LAMBDA x : x.id # id)

\* handleDeleteExpense, the Delete button of row k, rendered for an admin
\* if (!isAdmin) return; setExpenses(expenses.filter((e) => e.id !== id))
handleDeleteExpense(k) ==
    /\ variant = "auto"
    /\ edits < MaxEdits
    /\ DashboardShown
    /\ editable
    /\ k \in DOMAIN expenses
    /\ lastEdit' = [field |-> "deleteExpense", id |-> expenses[k].id]
    /\ edits' = edits + 1
    /\ UNCHANGED <<settings, currentMonthIndex, calcVars, residents,
                   currentUser, shown, variant, mounted, uid, authUser, docs,
                   firstResidents, inflight, bindVars, outVars>>
    /\ expenses' = WithoutId(expenses, expenses[k].id)
    /\ SaveEffect(TRUE)

\* the texts of Date.now() of the submits; two submits can read the same
\* millisecond
ExpenseIds == {<<"1">>, <<"2">>}

\* the texts typed into the description and the amount input
ExpenseDescriptions == {<<>>, <<"f", "e", "e">>}

ExpenseAmounts == {<<>>, <<"0">>, <<"5", "0", "0">>}

ExpenseDate == <<"2", "0", "2", "5">>

OtherExpense ==
    [id |-> <<"2">>, description |-> <<"l", "i", "f", "t">>,
     amount |-> Num(DefaultFlatFee), date |-> ExpenseDate]

\* the lists a loaded document gives: none, one, and three of which two
\* have the same id
LoadedExpenses ==
    {<<>>, <<SampleExpense>>,
     <<SampleExpense, OtherExpense,
       [SampleExpense EXCEPT !.description = <<"t", "a", "x">>]>>}

\* the auto-save App with a session whose document has been loaded: the
\* admin, or the owner of flat 101
InitExpenses ==
    /\ variant = "auto"
    /\ mounted = TRUE
    /\ localResidents = StoredLocalResidents
    /\ localExpenses = <<>>
    /\ localSettings = DefaultSettings
    /\ localStorage =
          Persisted(localResidents, localExpenses, localSettings)
    /\ firstResidents = localResidents
    /\ authUser \in {AdminIdentity, FlatIdentity}
    /\ uid = authUser.uid
    /\ currentUser = ResolvedRole(authUser, firstResidents)
    /\ residents = LoadedResidents
    /\ expenses \in LoadedExpenses
    /\ settings = StoredDoc.settings
    /\ docs = [u \in Uids |->
                  IF u = uid
                  THEN [StoredDoc EXCEPT !.expenses = expenses]
                  ELSE AbsentDoc]
    /\ loadingRemote = FALSE
    /\ listener = [uid |-> uid, status |-> "live", pending |-> FALSE]
    /\ lastCreate = NoCreate
    /\ createCalls = 0
    /\ timers = <<PendingSave(uid, residents, expenses, settings)>>
    /\ inflight = <<>>
    /\ lastWrite = NoWrite
    /\ notice = Quiet
    /\ console = Quiet
    /\ currentMonthIndex = EditMonth
    /\ shown = RenderCards(residents, settings, currentMonthIndex)
    /\ lastEdit = NoEdit
    /\ edits = 0
    /\ resident = Null
    /\ calc = <<>>

NextExpenses ==
    \/ \E now \in ExpenseIds, description \in ExpenseDescriptions,
          amount \in ExpenseAmounts :
            handleAddExpense(now, description, amount, ExpenseDate)
    \/ \E k \in DOMAIN expenses : handleDeleteExpense(k)

SpecExpenses == InitExpenses /\ [][NextExpenses]_vars

-----------------------------------------------------------------------------
(* Properties of the load effect *)

\* C10: when the document is absent on the first snapshot of a binding, the
\* store receives exactly one create call, and the units, expenses and fee
\* schedule of the created document are the residents, expenses and
\* settings the App holds in memory when the call is made
C10_CreateFromMemory ==
    lastCreate # NoCreate /\ lastCreate.first =>
        /\ lastCreate.calls = 1
        /\ lastCreate.doc.residents = lastCreate.residents
        /\ lastCreate.doc.expenses = lastCreate.expenses
        /\ lastCreate.doc.settings = lastCreate.settings

-----------------------------------------------------------------------------
(* Properties of the debounced save *)

\* the residents, expenses and settings the App holds
Model == <<residents, expenses, settings>>

\* what a timer or an awaited write carries
Carried(w) == <<w.residents, w.expenses, w.settings>>

\* a card handled an input event in this step
Mutation == edits' = edits + 1

\* the timer callback ran in this step: a write is issued
Fired == Len(inflight') > Len(inflight)

\* at most one timer is set, and it carries the state the App holds
C11_OneTimer ==
    /\ Len(timers) <= 1
    /\ timers # <<>> => Carried(timers[1]) = Model /\ timers[1].uid = uid

\* a mutation inside the quiet period replaces the timer: the write set
\* before is not executed, the one set now carries the new state
C11_Superseded ==
    Mutation /\ timers # <<>> =>
        /\ Len(timers') = 1
        /\ Carried(timers'[1]) = <<residents', expenses', settings'>>
        /\ inflight' = inflight
        /\ docs' = docs

\* when the quiet period ends one write is issued, with the latest state
C11_OneWrite ==
    Fired =>
        /\ Len(inflight') = Len(inflight) + 1
        /\ inflight'[Len(inflight')].stage = "update"
        /\ Carried(inflight'[Len(inflight')]) = Model
        /\ timers' = <<>>

\* C11: mutations made within the quiet period of the debounced auto-save
\* are coalesced. At most one write timer is outstanding at any time; a
\* mutation while a timer is pending cancels it, so the superseded write is
\* never executed; and when the timer runs exactly one remote write is
\* issued, carrying the latest residents, expenses and settings.
C11_Coalesced ==
    /\ []C11_OneTimer
    /\ [][C11_Superseded /\ C11_OneWrite]_vars

\* two payments were typed, the second one a different amount, and the one
\* write awaiting its result carries the second
C11_Witness ==
    /\ variant = "auto"
    /\ edits = 2
    /\ timers = <<>>
    /\ Len(inflight) = 1
    /\ inflight[1].stage = "update"
    /\ Carried(inflight[1]) = Model
    /\ residents[FirstFlat].payments[0] = Num(7)
    /\ docs[uid] \in {AbsentDoc, StoredDoc}

\* the update of the first awaited write was rejected in this step
UpdateFailed ==
    /\ inflight # <<>>
    /\ Head(inflight).stage = "update"
    /\ inflight' # <<>>
    /\ Head(inflight').stage = "set"

\* the fallback write of the first awaited write was rejected in this step
FallbackFailed ==
    /\ inflight # <<>>
    /\ Head(inflight).stage = "set"
    /\ console' = "Error saving to Firestore"

\* a rejected update is followed by one merge setDoc with the same state
C13_OneFallback ==
    UpdateFailed =>
        /\ Len(inflight') = Len(inflight)
        /\ Carried(Head(inflight')) = Carried(Head(inflight))
        /\ Head(inflight').uid = Head(inflight).uid
        /\ Tail(inflight') = Tail(inflight)
        /\ docs' = docs
        /\ notice' = Quiet
        /\ <<residents', expenses', settings'>> = Model

\* a rejected fallback is logged and dropped
C13_Dropped ==
    FallbackFailed =>
        /\ inflight' = Tail(inflight)
        /\ timers' = timers
        /\ docs' = docs
        /\ notice' = Quiet
        /\ <<residents', expenses', settings'>> = Model

\* C13: when the update of a debounced auto-save is rejected, exactly one
\* fallback create-if-missing write with the same state is attempted; when
\* that is rejected too the failure is only logged: no further write is
\* attempted for that state, nothing is shown to the user, and the
\* residents, expenses and settings in memory are unchanged.
C13_FallbackOnce == [][C13_OneFallback /\ C13_Dropped]_vars

\* both writes of a save were rejected: it is logged and nothing waits
C13_Witness ==
    /\ variant = "auto"
    /\ console = "Error saving to Firestore"
    /\ notice = Quiet
    /\ inflight = <<>>
    /\ timers = <<>>

-----------------------------------------------------------------------------
(* Properties of the manual save *)

\* the Save Changes handler called updateDoc in this step
SaveCalled == lastWrite' # lastWrite /\ lastWrite'.op = "update"

\* the document holds the residents, expenses and settings of the App
HoldsModel(doc) ==
    /\ doc.exists
    /\ {"residents", "expenses", "settings"} \subseteq doc.fields
    /\ <<doc.residents, doc.expenses, doc.settings>> = Model

C12_SaveStep ==
    SaveCalled =>
        /\ lastWrite'.uid = uid
        /\ lastWrite'.calls = 1
        /\ <<residents', expenses', settings'>> = Model
        /\ UNCHANGED <<timers, inflight, uid>>
        /\ IF lastWrite'.ok
           THEN /\ HoldsModel(docs'[uid])
                /\ \A u \in Uids \ {uid} : docs'[u] = docs[u]
                /\ notice' = "Data saved"
           ELSE /\ docs' = docs
                /\ notice' = "Error saving data"

\* C12: a manual save writes the residents, expenses and settings in
\* memory to the document of the current uid with one updateDoc call; when
\* the call fails the user is told, the document and the model in memory
\* are left as they were, and the call is not repeated.
C12_ManualSave == [][C12_SaveStep]_vars

\* a save of an edited model failed and was reported
C12_Witness ==
    /\ variant \in {"index", "part_000"}
    /\ notice = "Error saving data"
    /\ lastWrite = WriteCall("update", uid, FALSE, 1)
    /\ edits = 1
    /\ ~HoldsModel(docs[uid])

-----------------------------------------------------------------------------
(* Properties of the two stores *)

\* what the local fallback store holds
LocalModel == <<localResidents, localExpenses, localSettings>>

\* C14: while no remote session exists (uid is null) the local fallback
\* store holds the residents, expenses and settings the App holds in
\* memory.
C14_LocalMirrorsModel == uid = NullUid => LocalModel = Model

\* a remote write is issued in this step: a create by the load effect, an
\* update by the Save Changes button or the timer callback, or the merge
\* setDoc of the catch block
WriteIssued ==
    \/ createCalls' > createCalls
    \/ lastWrite' # lastWrite /\ lastWrite'.op # "none"
    \/ Len(inflight') > Len(inflight)
    \/ \E n \in DOMAIN inflight \cap DOMAIN inflight' :
          inflight[n].stage = "update" /\ inflight'[n].stage = "set"

C15_Step ==
    /\ uid # NullUid /\ uid' # NullUid => UNCHANGED localVars
    /\ uid = NullUid => ~WriteIssued

\* C15: the model is persisted to one authority at a time. While a remote
\* session is active (uid is not null) no step changes the local fallback
\* store, and while none is active no remote write is issued.
C15_OneAuthority == [][C15_Step]_vars

\* C17: after logout the residents, expenses and settings in memory are
\* those the local fallback store holds.
C17_RevertsToLocal ==
    uid = NullUid /\ authUser = NoUser /\ currentUser = Null =>
        Model = LocalModel

-----------------------------------------------------------------------------
(* Properties of the session *)

\* a subscription that can still deliver snapshots
Subscribed == listener.status \in {"waiting", "live"}

\* whatever subscription exists is the one of the current uid
C16_KeyedByUid ==
    /\ listener.status # "none" => listener.uid = uid
    /\ uid = NullUid => listener = NoListener

\* the step in which the identity-provider session ends
SignedOut == authUser # NoUser /\ authUser' = NoUser

\* the code that clears the session has run in this step: handleLogout
\* itself in index.tsx, the auth listener after signOut in the others
Cleared == authUser' = NoUser /\ <<uid', currentUser'>> # <<uid, currentUser>>

\* the handleLogout of index.tsx clears role and uid and unsubscribes in
\* the step that signs out, the auth listener of the other variants does
\* it when it is told of the sign-out; with no subscription the model in
\* memory is changed by no snapshot
C16_LogoutStep ==
    /\ SignedOut /\ variant \in {"index", "auto"} => Cleared
    /\ Cleared =>
          /\ currentUser' = Null
          /\ uid' = NullUid
          /\ listener' = NoListener
    /\ ~Subscribed /\ ~Subscribed' /\ currentUser = Null =>
          <<residents', expenses', settings'>> = Model

\* a logout that has been carried out leaves nothing subscribed
C16_LoggedOut ==
    authUser = NoUser /\ uid = NullUid =>
        listener = NoListener /\ currentUser = Null

\* C16: logout ends the identity-provider session, sets currentUser and uid
\* to null and stops the remote subscription; afterwards no subscription
\* is active and no snapshot changes the model in memory. At any time at
\* most one subscription exists and it is the one of the current uid.
C16_Logout ==
    [](C16_KeyedByUid /\ C16_LoggedOut) /\ [][C16_LogoutStep]_vars

\* a session loaded its document and was logged out
C16_Witness ==
    /\ variant \in {"index", "part_000"}
    /\ authUser = NoUser
    /\ uid = NullUid
    /\ currentUser = Null
    /\ listener = NoListener
    /\ residents = LoadedResidents

\* the identity provider rejected the sign-in of this step
Rejected ==
    \/ console' = "Login error"
    \/ variant \in {"part_000", "part_001"}
          /\ notice' = "Invalid credentials"
    \/ variant = "auto" /\ notice' = "error.message"

UnitsOf(email) == {k \in DOMAIN residents : residents[k].email = email}

\* the auth listener or handleLogin has resolved the signed-in user
Resolved == authUser # NoUser /\ uid = authUser.uid

-----------------------------------------------------------------------------
(* Properties of the loading state *)

\* the manual-save Apps with the scheduling of the event loop: a callback
\* that is due (the auth listener, a snapshot to deliver) is run
LiveManual ==
    /\ SpecManual
    /\ WF_vars(AuthStateChanged)
    /\ WF_vars(\E ok \in BOOLEAN : Snapshot(ok))

\* the subscription has reported an error and delivers nothing any more
ReadFailed == listener.status = "failed"

\* C21: a read error of the subscription does not leave the UI loading for
\* ever: after the subscription reports an error loadingRemote eventually
\* becomes false.
C21_ErrorTerminates == ReadFailed ~> ~loadingRemote

\* onSnapshot was called and neither callback has run yet
AwaitingFirstResult == listener.status = "waiting"

\* C22: between the request of a subscription and its first result
\* (snapshot or error) loadingRemote is true, so a session with a role is
\* shown the loading state and never the Dashboard.
C22_LoadingUntilFirstResult ==
    AwaitingFirstResult => loadingRemote /\ ~DashboardShown

\* a second session of the same App: the first loaded its document and
\* set loadingRemote to false, the resident's subscription now waits
C22_Witness ==
    /\ AwaitingFirstResult
    /\ currentUser.role = "resident"
    /\ listener.uid = FlatIdentity.uid
    /\ residents = LoadedResidents
    /\ loadingRemote

-----------------------------------------------------------------------------
(* Properties of the resident's view *)

\* {residents.map((r) => <ResidentCard key={r.id} resident={r} .../>)}:
\* the units whose card the Dashboard renders
VisibleUnits == IF DashboardShown THEN DOMAIN shown ELSE {}

\* {editable && (<> Email ... Password ... Reset Credentials </>)}: the
\* units whose email and password a card renders
VisibleCredentials == IF editable THEN VisibleUnits ELSE {}

\* what a resident is shown: the card of the unit the session is bound
\* to, and no email or password
C23_OwnUnitOnly ==
    currentUser.role = "resident" =>
        /\ VisibleCredentials = {}
        /\ \A k \in VisibleUnits : residents[k].id = currentUser.resident.id

\* a step of a resident's session other than the delivery of a snapshot
\* leaves residents, expenses and settings as they are
C23_NoWrite ==
    currentUser.role = "resident" /\ currentUser' = currentUser
        /\ listener' = listener
    => <<residents', expenses', settings'>> = Model

\* C23: in a session whose role is resident the model is read-only (no
\* operation of the resident changes a unit, an expense or the fee
\* schedule) and the resident sees only the unit the session is bound to
\* and no other unit's email or password.
C23_ResidentReadOnly == []C23_OwnUnitOnly /\ [][C23_NoWrite]_vars

-----------------------------------------------------------------------------
(* Properties of the expenses *)

\* the positions of es whose expense has another id
Kept(es, id) == {k \in DOMAIN es : es[k].id # id}

\* the j-th kept position, counted from the front
KeptAt(es, id, j) ==
    CHOOSE k \in Kept(es, id) :
        Cardinality({m \in Kept(es, id) : m <= k}) = j

\* a submit of the expense form was handled in this step
AddStep == edits' = edits + 1 /\ lastEdit'.field = "addExpense"

\* a Delete button was handled in this step
DeleteStep == edits' = edits + 1 /\ lastEdit'.field = "deleteExpense"

C24_Add ==
    AddStep =>
        IF lastEdit'.description = <<>> \/ lastEdit'.amount = <<>>
        THEN expenses' = expenses
        ELSE /\ Len(expenses') = Len(expenses) + 1
             /\ \A k \in DOMAIN expenses : expenses'[k] = expenses[k]
             /\ expenses'[Len(expenses')].id = lastEdit'.id
             /\ expenses'[Len(expenses')].description = lastEdit'.description
             /\ expenses'[Len(expenses')].date = lastEdit'.date

C24_Delete ==
    DeleteStep =>
        /\ Len(expenses') = Cardinality(Kept(expenses, lastEdit'.id))
        /\ \A j \in DOMAIN expenses' :
              expenses'[j] = expenses[KeptAt(expenses, lastEdit'.id, j)]

\* no step gives a listed expense another content
C24_NoUpdate == Len(expenses') = Len(expenses) => expenses' = expenses

\* C24: expenses are append/delete only: adding appends exactly one
\* expense at the end and leaves every listed expense unchanged, and adds
\* nothing when the description or the amount is empty; deleting by id
\* removes exactly the expenses with that id and leaves the others
\* unchanged and in order; no operation updates an expense in place.
C24_AppendDeleteOnly == [][C24_Add /\ C24_Delete /\ C24_NoUpdate]_vars

\* an expense was added to three of which two share an id, then that id
\* was deleted: the other listed expense and the new one remain, in order
C24_Witness ==
    /\ edits = 2
    /\ lastEdit.field = "deleteExpense"
    /\ lastEdit.id = SampleExpense.id
    /\ Len(expenses) = 2
    /\ expenses[1] = OtherExpense
    /\ expenses[2].description = <<"f", "e", "e">>
    /\ expenses[2].amount = Num(0)

-----------------------------------------------------------------------------
(* Properties of the first render *)

\* the App renders for the first time in this step
MountStep == ~mounted /\ mounted'

Id_flat403 == Str_flat \o <<"-", "4", "0", "3">>

Id_shopS6 == Str_shop \o <<"-", "S", "6">>

\* the list is the 18 seeded units
Seeded(rs) ==
    /\ Len(rs) = 18
    /\ Cardinality({rs[k].id : k \in 1..18}) = 18
    /\ \A k \in 1..12 : StartsWith(rs[k].id, Str_flat) /\ Len(rs[k].id) = 8
    /\ \A k \in 13..18 : StartsWith(rs[k].id, Str_shop) /\ Len(rs[k].id) = 7
    /\ rs[1].id = Id_flat101
    /\ rs[12].id = Id_flat403
    /\ rs[13].id = Id_shopS1
    /\ rs[18].id = Id_shopS6
    /\ {<<rs[k].id[6], rs[k].id[8]>> : k \in 1..12}
          = {"1", "2", "3", "4"} \X {"1", "2", "3"}
    /\ \A k \in 1..18 :
          /\ rs[k].ownerName = <<>>
          /\ rs[k].previousDue = Num(0)
          /\ rs[k].payments = <<>>
          /\ rs[k].password = Str_password

\* C25: units are seeded only when no persisted state exists: with an
\* empty local store the initial model is exactly the 18 units (12 flats
\* flat-101..flat-403, 6 shops shop-S1..shop-S6, distinct ids, empty
\* owner, zero previousDue, no payments, default credentials); when the
\* store holds a persisted value that value is the initial model and
\* nothing is seeded.
C25_SeededOnce ==
    [][MountStep =>
          /\ localStorage.residents_v2 = NoItem => Seeded(residents')
          /\ localStorage.residents_v2.kind = "json" =>
                residents' = localStorage.residents_v2.value]_vars

\* the page was loaded with a list in the store, and that list, which is
\* not the seeded one, is the model
C25_Witness ==
    /\ mounted
    /\ localStorage.residents_v2 = JsonItem(StoredLocalResidents)
    /\ residents = StoredLocalResidents
    /\ ~Seeded(residents)

-----------------------------------------------------------------------------
(* Properties of the save effect and the first snapshot *)

\* the residents, expenses and settings a document holds
Contents(doc) == <<doc.residents, doc.expenses, doc.settings>>

\* a write of the save effect changes a document in this step
Overwritten(u) == docs[u].exists /\ docs'[u] # docs[u]

\* C26: binding a session to a document that exists never overwrites the
\* document with the model the App held before the login (the model of
\* the local store): however the 700 ms timer and the first snapshot
\* interleave, what a session writes is derived from the loaded document.
C26_NoStaleOverwrite ==
    [][\A u \in Uids :
          Overwritten(u) /\ Contents(docs[u]) # LocalModel
          => Contents(docs'[u]) # LocalModel]_vars

\* the snapshot callback applies an existing document to the model in
\* this step
SnapshotApplied ==
    /\ listener.pending
    /\ listener'.status = "live"
    /\ ~listener'.pending
    /\ docs[listener.uid].exists

\* C27: the auto-save App quiesces: applying a snapshot to the model in
\* memory, the one caused by the session's own write included, does not
\* by itself schedule a remote write, so that only finitely many writes
\* follow the user's last mutation.
C27_SnapshotSchedulesNothing ==
    [][SnapshotApplied /\ timers = <<>> => timers' = <<>>]_vars

\* the timer that is set carries the payment typed last, and the document
\* does not hold that state
EditPending ==
    /\ timers # <<>>
    /\ lastEdit.field = "payment"
    /\ Lookup(residents[lastEdit.unit].payments, lastEdit.period)
          = OrZero(parseFloat(lastEdit.input))
    /\ Carried(timers[1]) = Model
    /\ Contents(docs[timers[1].uid]) # Model

\* C28: no edit an admin makes during a session is lost: every mutation
\* is followed by a remote write attempt that carries its state or a
\* later one, also when the logout comes before the debounce timer fires;
\* so the timer of an unsaved edit goes away only when a write that
\* carries the edit has been issued.
C28_NoEditDropped ==
    [][EditPending /\ timers' = <<>> =>
          \E k \in DOMAIN inflight' : Carried(inflight'[k]) = Model]_vars

-----------------------------------------------------------------------------
(* Properties of loadingRemote *)

\* C29: loadingRemote is true only while a subscription is active and
\* awaits its first result: after any sequence of login, snapshot, error
\* and logout events no state has loadingRemote true and no active
\* subscription, so nobody is left on the loading screen.
C29_LoadingHasSubscription ==
    loadingRemote => AwaitingFirstResult /\ listener.uid = uid

-----------------------------------------------------------------------------
(* Properties of a failed login of the manual-save App *)

\* nobody is signed in and nothing is subscribed
NoSession ==
    /\ authUser = NoUser
    /\ uid = NullUid
    /\ currentUser = Null
    /\ listener = NoListener

\* handleLogin of the manual-save App returned false and the login page
\* shows "Invalid credentials"
LoginFailed == variant = "index" /\ notice' = "Invalid credentials"

\* C30: in the manual-save App a login that reports failure creates no
\* session state: uid and currentUser are null, no subscription is started
\* and no document is created, also when the identity provider accepted
\* the credentials and no unit matches the email and password.
C30_FailedLoginCreatesNothing ==
    [][NoSession /\ LoginFailed =>
          /\ uid' = NullUid
          /\ currentUser' = Null
          /\ listener' = NoListener
          /\ ~loadingRemote'
          /\ docs' = docs]_vars

=============================================================================
